---- MODULE Spec2Model ----
(***************************************************************************)
(* Model of the mock_zmq native stub: mock_send, mock_recv and             *)
(* mock_transform (native/src/mock_zmq.c).                                 *)
(*                                                                         *)
(* Two specifications share the byte-level operators:                      *)
(*   Spec      one caller, whole calls, one after the other;               *)
(*   SpecConc  two threads, each running one call, interleaved at the      *)
(*             level of single loads and stores.                           *)
(***************************************************************************)
EXTENDS Integers, Sequences, FiniteSets

VARIABLES buf, hist, mem, thr

vars == <<buf, hist, mem, thr>>

-----------------------------------------------------------------------------
(* Bounds of the model.                                                    *)

\* longest buffer whose contents Spec draws freely
MaxLen == 3
\* length of the long buffer of Spec (past the wrap of the pattern at 256)
LongLen == 300
\* calls per behaviour of Spec
MaxCalls == 2
\* capacity of each buffer of SpecConc
ConcLen == 2

-----------------------------------------------------------------------------
(* 64-bit quantities.  size_t is an unsigned 64-bit integer, held as four  *)
(* 16-bit limbs, least significant first; an int64_t is held as a sign and *)
(* a magnitude, the magnitude again as four limbs.                         *)

LimbBase == 2^16

SignLimb == 2^15

NumLimbs == 64 \div 16

\* the size_t with value n, for 0 <= n < 2^31
SizeOf(n) == <<n % LimbBase, (n \div LimbBase) % LimbBase, 0, 0>>

\* the value of a size_t below 2^31
ToNat(x) == x[1] + x[2] * LimbBase

RECURSIVE LessFrom(_, _, _)
LessFrom(x, y, k) ==
    IF k = 0 THEN FALSE
    ELSE IF x[k] # y[k] THEN x[k] < y[k]
    ELSE LessFrom(x, y, k - 1)

\* x < y on size_t
SizeLess(x, y) == LessFrom(x, y, NumLimbs)

RECURSIVE IncFrom(_, _)
IncFrom(x, k) ==
    IF k > NumLimbs THEN x
    ELSE IF x[k] = LimbBase - 1 THEN IncFrom([x EXCEPT ![k] = 0], k + 1)
    ELSE [x EXCEPT ![k] = @ + 1]

\* 2^64 - x, the magnitude of the negative int64_t whose bits are x
Neg64(x) == IncFrom([k \in 1..NumLimbs |-> LimbBase - 1 - x[k]], 1)

\* (int64_t)x for a size_t x: the same 64 bits read as two's complement
ToInt64(x) ==
    IF x[NumLimbs] >= SignLimb
    THEN [neg |-> TRUE, mag |-> Neg64(x)]
    ELSE [neg |-> FALSE, mag |-> x]

\* the int64_t holding a checksum c, 0 <= c < 2^31
Int64Of(c) == [neg |-> FALSE, mag |-> SizeOf(c)]

-----------------------------------------------------------------------------
(* Byte-level operators.                                                   *)

Uint8 == 2^8

RECURSIVE BitAnd(_, _)
BitAnd(a, b) ==
    IF a = 0 \/ b = 0 THEN 0
    ELSE (a % 2) * (b % 2) + 2 * BitAnd(a \div 2, b \div 2)

RECURSIVE BitXor(_, _)
BitXor(a, b) ==
    IF a = 0 THEN b
    ELSE IF b = 0 THEN a
    ELSE ((a + b) % 2) + 2 * BitXor(a \div 2, b \div 2)

RECURSIVE BitOr(_, _)
BitOr(a, b) ==
    IF a = 0 THEN b
    ELSE IF b = 0 THEN a
    ELSE (IF a % 2 = 1 \/ b % 2 = 1 THEN 1 ELSE 0) + 2 * BitOr(a \div 2, b \div 2)

\* 0xFF of mock_recv
PatternMask == 255

\* 0xAA of mock_transform
XorMask == 170

\* a loop that also runs the iteration i = len
LoopCondInclusive(i, len) == ~SizeLess(len, SizeOf(i))

\* i < len, the condition of all three loops
LoopCond(i, len) == SizeLess(SizeOf(i), len)

\* a sum that reads the byte as a signed char
SendAccSigned(checksum, byte) ==
    checksum + (IF byte >= 128 THEN byte - Uint8 ELSE byte)

\* checksum += data[i]; the int64_t checksum stays below 255 * cap < 2^31
\* for the storage sizes of the model, so it never wraps
SendAcc(checksum, byte) == checksum + byte

\* a pattern masked with 0x7F
RecvByte7Bit(i) == BitAnd(i, 127) % Uint8

\* (uint8_t)(i & 0xFF)
RecvByte(i) == BitAnd(i, PatternMask) % Uint8

\* data[i] |= 0xAA
XorByteOr(b) == BitOr(b, XorMask) % Uint8

\* data[i] ^= 0x55
XorByteOtherMask(b) == BitXor(b, 85) % Uint8

\* data[i] ^= 0xAA
XorByte(b) == BitXor(b, XorMask) % Uint8

-----------------------------------------------------------------------------
(* The three functions, as the loops of the source.  data is the caller's  *)
(* storage, a sequence indexed from 1, so data[i] of the source is         *)
(* data[i + 1] here.  Each yields its return value and the storage it      *)
(* leaves behind.                                                          *)
(*                                                                         *)
(* A loop "for (i = 0; i < len; i++) body" over storage of cap bytes is    *)
(* written as the iterations lo, lo + 1, ..., hi - 1 run in that order,    *)
(* each under the loop's condition, the range being halved so that the     *)
(* evaluation nests to a depth of log2(cap) and not of cap.  TLC evaluates *)
(* an operator's arguments on demand; the test "first = first" makes it    *)
(* finish the first half of the range before it starts the second.         *)

RECURSIVE SendLoop(_, _, _, _, _)
SendLoop(data, len, lo, hi, checksum) ==
    IF hi <= lo THEN checksum
    ELSE IF hi = lo + 1
    THEN IF LoopCond(lo, len) THEN SendAcc(checksum, data[lo + 1]) ELSE checksum
    ELSE LET mid == (lo + hi) \div 2
             first == SendLoop(data, len, lo, mid, checksum)
         IN  IF first = first THEN SendLoop(data, len, mid, hi, first) ELSE first

\* a send that clears what it has sent
mock_send_clearing(data, len) ==
    [ret  |-> Int64Of(SendLoop(data, len, 0, Len(data), 0)),
     data |-> [k \in 1..Len(data) |-> IF LoopCond(k - 1, len) THEN 0 ELSE data[k]]]

mock_send(data, len) ==
    [ret |-> Int64Of(SendLoop(data, len, 0, Len(data), 0)), data |-> data]

RECURSIVE RecvLoop(_, _, _, _)
RecvLoop(b, len, lo, hi) ==
    IF hi <= lo THEN b
    ELSE IF hi = lo + 1
    THEN IF LoopCond(lo, len) THEN [b EXCEPT ![lo + 1] = RecvByte(lo)] ELSE b
    ELSE LET mid == (lo + hi) \div 2
             first == RecvLoop(b, len, lo, mid)
         IN  IF first = first THEN RecvLoop(first, len, mid, hi) ELSE first

\* return (int64_t)len
RecvRet(len) == ToInt64(len)

mock_recv(b, len) ==
    [ret |-> RecvRet(len), data |-> RecvLoop(b, len, 0, Len(b))]

RECURSIVE TransformLoop(_, _, _, _)
TransformLoop(data, len, lo, hi) ==
    IF hi <= lo THEN data
    ELSE IF hi = lo + 1
    THEN IF LoopCond(lo, len)
         THEN [data EXCEPT ![lo + 1] = XorByte(data[lo + 1])]
         ELSE data
    ELSE LET mid == (lo + hi) \div 2
             first == TransformLoop(data, len, lo, mid)
         IN  IF first = first THEN TransformLoop(first, len, mid, hi) ELSE first

Void == [void |-> TRUE]

mock_transform(data, len) ==
    [ret |-> Void, data |-> TransformLoop(data, len, 0, Len(data))]

-----------------------------------------------------------------------------
(* Spec: one caller, whole calls.  buf is the caller's storage; hist holds *)
(* the calls made so far, newest first: the function called, its len, the  *)
(* storage before the call (pre), whether the call returned and what.      *)

SmallBytes == {0, 255}

RECURSIVE SeqsOf(_, _)
SeqsOf(S, n) ==
    IF n = 0 THEN {<<>>}
    ELSE {<<>>} \cup {Append(s, x) : s \in SeqsOf(S, n - 1), x \in S}

InitBufs ==
    SeqsOf(SmallBytes, MaxLen)
      \cup {<<1, 2, 3, 4>>, <<0, 255, 170>>}
      \cup {[k \in 1..LongLen |-> 7] \o <<>>}

\* the in-contract lengths the caller passes for a storage of cap bytes
CallLens(cap) ==
    IF cap <= MaxLen + 1
    THEN {SizeOf(n) : n \in 0..cap}
    ELSE {SizeOf(n) : n \in {m \in {0, 256, 300, cap} : m <= cap}}

\* 2^63 - 1, 2^63 and 2^64 - 1
HugeLens ==
    {<<LimbBase - 1, LimbBase - 1, LimbBase - 1, SignLimb - 1>>,
     <<0, 0, 0, SignLimb>>,
     <<LimbBase - 1, LimbBase - 1, LimbBase - 1, LimbBase - 1>>}

\* lengths beyond the storage: caller misuse
OversizeLens(cap) == {SizeOf(cap + 1)} \cup HugeLens

Crashed == hist # <<>> /\ ~hist[1].returned

CanCall == Len(hist) < MaxCalls /\ ~Crashed

Record(op, len, r) ==
    /\ hist' = <<[op |-> op, len |-> len, pre |-> buf,
                  returned |-> TRUE, ret |-> r.ret]>> \o hist
    /\ buf' = r.data

Send ==
    /\ CanCall
    /\ \E len \in CallLens(Len(buf)) : Record("send", len, mock_send(buf, len))
    /\ UNCHANGED <<mem, thr>>

Recv ==
    /\ CanCall
    /\ \E len \in CallLens(Len(buf)) : Record("recv", len, mock_recv(buf, len))
    /\ UNCHANGED <<mem, thr>>

Transform ==
    /\ CanCall
    /\ \E len \in CallLens(Len(buf)) :
           Record("transform", len, mock_transform(buf, len))
    /\ UNCHANGED <<mem, thr>>

\* mock_recv with len beyond the storage is undefined behaviour: the stores
\* past the end either fault (the call never returns) or land in memory that
\* is not the buffer, and then the call returns (int64_t)len with the whole
\* storage overwritten.
RecvOversize ==
    /\ CanCall
    /\ \E len \in OversizeLens(Len(buf)) :
         \/ /\ hist' = <<[op |-> "recv", len |-> len, pre |-> buf,
                          returned |-> FALSE, ret |-> Void]>> \o hist
            /\ UNCHANGED buf
         \/ Record("recv", len,
                   [ret |-> RecvRet(len), data |-> RecvLoop(buf, len, 0, Len(buf))])
    /\ UNCHANGED <<mem, thr>>

NoMem == <<>>

Init ==
    /\ buf \in InitBufs
    /\ hist = <<>>
    /\ mem = NoMem
    /\ thr = NoMem

Next == Send \/ Recv \/ Transform \/ RecvOversize

Spec == Init /\ [][Next]_vars

-----------------------------------------------------------------------------
(* SpecConc: threads, each running one call, interleaved at single loads   *)
(* and stores.  mem maps a buffer to its bytes.  thr[t] is the position of *)
(* thread t: pc, the function called (op), its arguments (b, len), the     *)
(* locals of the loop (i, checksum; tmp is the byte that data[i] ^= 0xAA   *)
(* has loaded and not yet stored back) and the value returned (ret).       *)
(* History kept for the properties: pre and post are b's bytes at the call *)
(* and at the return, rd and wr the indices loaded and stored, peers the   *)
(* threads that ran a call during this one, mix the functions those of     *)
(* them ran that were given the same buffer.                               *)

Threads == {"t1", "t2"}

BufIds == {"a", "b"}

Ops == {"send", "recv", "transform"}

ConcBufs ==
    {[k \in 1..ConcLen |-> c] \o <<>> : c \in SmallBytes}
      \cup {[k \in 1..ConcLen |-> k] \o <<>>}

ConcLens(cap) == {SizeOf(n) : n \in 0..cap}

Idle ==
    [pc |-> "idle", op |-> "none", b |-> "a", len |-> SizeOf(0), i |-> 0,
     checksum |-> 0, tmp |-> 0, ret |-> Void, pre |-> <<>>, post |-> <<>>,
     rd |-> {}, wr |-> {}, peers |-> {}, mix |-> {}]

Active(t) == thr[t].pc \in {"loop", "store"}

\* data[i]
Load(m, b, i) == m[b][i + 1]

\* a store that lands in every buffer
StoreEverywhere(m, b, i, v) == [x \in DOMAIN m |-> [m[x] EXCEPT ![i + 1] = v]]

\* data[i] = v
Store(m, b, i, v) == [m EXCEPT ![b][i + 1] = v]

\* a thread enters one of the three functions
Call(t) ==
    /\ thr[t].pc = "idle"
    /\ \E op \in Ops, b \in BufIds :
         \E len \in ConcLens(Len(mem[b])) :
           thr' = [u \in Threads |->
                     IF u = t
                     THEN [Idle EXCEPT
                             !.pc = "loop", !.op = op, !.b = b, !.len = len,
                             !.pre = mem[b],
                             !.peers = {w \in Threads \ {t} : Active(w)},
                             !.mix = {thr[w].op :
                                        w \in {x \in Threads \ {t} :
                                                 Active(x) /\ thr[x].b = b}}]
                     ELSE IF Active(u)
                     THEN [thr[u] EXCEPT
                             !.peers = @ \cup {t},
                             !.mix = IF thr[u].b = b THEN @ \cup {op} ELSE @]
                     ELSE thr[u]]
    /\ UNCHANGED <<mem, buf, hist>>

\* one iteration of mock_send's loop: checksum += data[i]; i++
SendStep(t) ==
    LET c == thr[t]
    IN  /\ c.pc = "loop" /\ c.op = "send"
        /\ LoopCond(c.i, c.len)
        /\ thr' = [thr EXCEPT ![t] =
                     [c EXCEPT !.checksum = SendAcc(@, Load(mem, c.b, c.i)),
                               !.rd = @ \cup {c.i},
                               !.i = @ + 1]]
        /\ UNCHANGED <<mem, buf, hist>>

\* one iteration of mock_recv's loop: buf[i] = (uint8_t)(i & 0xFF); i++
RecvStep(t) ==
    LET c == thr[t]
    IN  /\ c.pc = "loop" /\ c.op = "recv"
        /\ LoopCond(c.i, c.len)
        /\ mem' = Store(mem, c.b, c.i, RecvByte(c.i))
        /\ thr' = [thr EXCEPT ![t] =
                     [c EXCEPT !.wr = @ \cup {c.i}, !.i = @ + 1]]
        /\ UNCHANGED <<buf, hist>>

\* the load of data[i] ^= 0xAA
TransformLoad(t) ==
    LET c == thr[t]
    IN  /\ c.pc = "loop" /\ c.op = "transform"
        /\ LoopCond(c.i, c.len)
        /\ thr' = [thr EXCEPT ![t] =
                     [c EXCEPT !.tmp = Load(mem, c.b, c.i),
                               !.rd = @ \cup {c.i},
                               !.pc = "store"]]
        /\ UNCHANGED <<mem, buf, hist>>

\* the store of data[i] ^= 0xAA; i++
TransformStore(t) ==
    LET c == thr[t]
    IN  /\ c.pc = "store"
        /\ mem' = Store(mem, c.b, c.i, XorByte(c.tmp))
        /\ thr' = [thr EXCEPT ![t] =
                     [c EXCEPT !.wr = @ \cup {c.i}, !.i = @ + 1, !.pc = "loop"]]
        /\ UNCHANGED <<buf, hist>>

\* the loop's condition fails: the function returns
Return(t) ==
    LET c == thr[t]
    IN  /\ c.pc = "loop"
        /\ ~LoopCond(c.i, c.len)
        /\ thr' = [thr EXCEPT ![t] =
                     [c EXCEPT !.pc = "done",
                               !.post = mem[c.b],
                               !.ret = IF c.op = "send" THEN Int64Of(c.checksum)
                                       ELSE IF c.op = "recv" THEN RecvRet(c.len)
                                       ELSE Void]]
        /\ UNCHANGED <<mem, buf, hist>>

InitConc ==
    /\ buf = <<>>
    /\ hist = <<>>
    /\ mem \in [BufIds -> ConcBufs]
    /\ thr = [t \in Threads |-> Idle]

NextConc ==
    \E t \in Threads :
        \/ Call(t)
        \/ SendStep(t)
        \/ RecvStep(t)
        \/ TransformLoad(t)
        \/ TransformStore(t)
        \/ Return(t)

SpecConc == InitConc /\ [][NextConc]_vars

-----------------------------------------------------------------------------
(* Properties of Spec.                                                     *)

\* the newest call has returned from op
Called(op) == hist # <<>> /\ hist[1].returned /\ hist[1].op = op

\* s[lo] + ... + s[hi]
RECURSIVE SumRange(_, _, _)
SumRange(s, lo, hi) ==
    IF lo > hi THEN 0
    ELSE IF lo = hi THEN s[lo]
    ELSE LET mid == (lo + hi) \div 2
         IN  SumRange(s, lo, mid) + SumRange(s, mid + 1, hi)

\* +2^k when bit k of x is clear, -2^k when it is set
FlipBit(x, k) == IF (x \div 2^k) % 2 = 0 THEN 2^k ELSE 0 - 2^k

\* x XOR 0xAA: bits 1, 3, 5 and 7 of x flipped
XorAA(x) == x + FlipBit(x, 1) + FlipBit(x, 3) + FlipBit(x, 5) + FlipBit(x, 7)

\* C1: mock_send(b, n) returns the sum of b[0..n-1], every byte read as an
\* unsigned value, so the result lies in 0..255*n; mock_send([1,2,3,4], 4)
\* returns 10.
C1_SendReturnsUnsignedSum ==
    Called("send") =>
        LET c == hist[1]
            n == ToNat(c.len)
        IN  /\ c.ret = Int64Of(SumRange(c.pre, 1, n))
            /\ ~c.ret.neg
            /\ ToNat(c.ret.mag) \in 0..(255 * n)
            /\ (c.pre = <<1, 2, 3, 4>> /\ n = 4) => c.ret = Int64Of(10)

C1_Witness ==
    /\ Called("send")
    /\ hist[1].pre = <<1, 2, 3, 4>>
    /\ hist[1].len = SizeOf(4)
    /\ hist[1].ret = Int64Of(10)

\* C2: after mock_recv(buf, n) returns, buf[i] = i mod 256 for every i in
\* [0, n), whatever the buffer held before the call.
C2_RecvWritesPattern ==
    Called("recv") =>
        \A i \in 0..(Len(buf) - 1) :
            SizeLess(SizeOf(i), hist[1].len) => buf[i + 1] = i % 256

C2_Witness ==
    /\ Called("recv")
    /\ hist[1].len = SizeOf(300)
    /\ hist[1].pre[1] # 0 /\ hist[1].pre[257] # 0
    /\ buf[1] = 0 /\ buf[256] = 255 /\ buf[257] = 0 /\ buf[300] = 43

\* C3: for every value of len that the size_t parameter can hold, the
\* int64_t that mock_recv(buf, len) returns equals len.
C3_RecvReturnsLen ==
    Called("recv") => hist[1].ret = [neg |-> FALSE, mag |-> hist[1].len]

\* C4: after mock_transform(b, n) returns, every byte at a position i in
\* [0, n) equals its value before the call XOR 0xAA; [0x00, 0xFF, 0xAA]
\* becomes [0xAA, 0x55, 0x00].
C4_TransformXorsEachByte ==
    Called("transform") =>
        LET c == hist[1]
            n == ToNat(c.len)
        IN  /\ \A k \in 1..n : buf[k] = XorAA(c.pre[k])
            /\ (c.pre = <<0, 255, 170>> /\ n = 3) => buf = <<170, 85, 0>>

C4_Witness ==
    /\ Called("transform")
    /\ hist[1].pre = <<0, 255, 170>>
    /\ hist[1].len = SizeOf(3)
    /\ buf = <<170, 85, 0>>

\* C5: two successive calls mock_transform(b, n); mock_transform(b, n)
\* leave b with the contents it had before the first.
C5_TransformSelfInverse ==
    (/\ Len(hist) >= 2
     /\ Called("transform")
     /\ hist[2].op = "transform"
     /\ hist[2].len = hist[1].len)
        => buf = hist[2].pre

C5_Witness ==
    /\ Len(hist) >= 2
    /\ Called("transform")
    /\ hist[2].op = "transform"
    /\ hist[2].len = hist[1].len
    /\ ToNat(hist[1].len) >= 2
    /\ hist[1].pre # hist[2].pre
    /\ buf = hist[2].pre

\* C6: mock_send leaves the buffer as it was before the call, and a
\* repeated call with the same inputs returns the same checksum.
C6_SendLeavesBuffer ==
    Called("send") =>
        /\ buf = hist[1].pre
        /\ (/\ Len(hist) >= 2
            /\ hist[2].op = "send"
            /\ hist[2].len = hist[1].len) => hist[1].ret = hist[2].ret

C6_Witness ==
    /\ Len(hist) >= 2
    /\ Called("send")
    /\ hist[2].op = "send"
    /\ hist[2].len = hist[1].len
    /\ ToNat(hist[1].len) >= 2
    /\ hist[1].ret = hist[2].ret
    /\ hist[1].ret # Int64Of(0)
    /\ buf = hist[2].pre

-----------------------------------------------------------------------------
(* Properties of SpecConc.                                                 *)

Done(t) == thr[t].pc = "done"

\* what op returns, and the bytes it leaves, when it runs alone
Alone(op, data, len) ==
    IF op = "send" THEN mock_send(data, len)
    ELSE IF op = "recv" THEN mock_recv(data, len)
    ELSE mock_transform(data, len)

\* C7: with len = 0, mock_send returns 0, mock_recv returns 0, and none of
\* the three functions loads or stores a byte of the buffer, which a call
\* that has the buffer to itself therefore leaves unchanged.
C7_ZeroLengthCalls ==
    \A t \in Threads :
        (thr[t].pc # "idle" /\ thr[t].len = SizeOf(0)) =>
            /\ thr[t].rd = {} /\ thr[t].wr = {}
            /\ Done(t) =>
                 /\ thr[t].op = "send" => thr[t].ret = Int64Of(0)
                 /\ thr[t].op = "recv" => thr[t].ret = [neg |-> FALSE, mag |-> SizeOf(0)]
                 /\ thr[t].mix = {} => thr[t].post = thr[t].pre

C7_Witness ==
    \E t \in Threads, u \in Threads :
        /\ Done(t) /\ thr[t].op = "recv" /\ thr[t].len = SizeOf(0)
        /\ thr[t].wr = {} /\ ToNat(thr[t].ret.mag) = 0
        /\ thr[t].post = thr[t].pre /\ thr[t].pre[1] # 0
        /\ Done(u) /\ thr[u].op \in {"send", "transform"}
        /\ thr[u].len = SizeOf(0)
        /\ thr[u].rd = {} /\ thr[u].post = thr[u].pre

\* C8: a call whose buffer no concurrent call is given returns the value,
\* and leaves the bytes, that it returns and leaves when it runs alone,
\* under every interleaving with the other threads' loads and stores.
C8_DistinctBuffersIndependent ==
    \A t \in Threads :
        (Done(t) /\ thr[t].mix = {}) =>
            LET c == thr[t]
                r == Alone(c.op, c.pre, c.len)
            IN  c.ret = r.ret /\ c.post = r.data

C8_Witness ==
    /\ Done("t1") /\ Done("t2")
    /\ thr["t1"].b # thr["t2"].b
    /\ thr["t1"].peers = {"t2"} /\ thr["t2"].peers = {"t1"}
    /\ thr["t1"].op = "transform" /\ thr["t2"].op = "recv"
    /\ thr["t1"].len = SizeOf(ConcLen) /\ thr["t2"].len = SizeOf(ConcLen)
    /\ thr["t1"].post # thr["t1"].pre
    /\ thr["t2"].post # thr["t2"].pre
    /\ thr["t1"].post = mock_transform(thr["t1"].pre, thr["t1"].len).data

\* the sum of n bytes of s, those at the positions of M transformed
MixedSum(s, n, M) ==
    SumRange([k \in 1..n |-> IF k \in M THEN XorAA(s[k]) ELSE s[k]], 1, n)

\* C9: a mock_send that shares its buffer with concurrent mock_transform
\* calls returns the sum of bytes each of which is either the byte as it was
\* or the byte transformed, independently for every position; the checksum
\* need equal neither the sum before nor the sum after the transform.
C9_SendSeesBytewiseMix ==
    \A t \in Threads :
        (Done(t) /\ thr[t].op = "send" /\ thr[t].mix \subseteq {"transform"}) =>
            LET c == thr[t]
                n == ToNat(c.len)
            IN  \E M \in SUBSET (1..n) : c.ret = Int64Of(MixedSum(c.pre, n, M))

C9_Witness ==
    \E t \in Threads, u \in Threads :
        /\ Done(t) /\ thr[t].op = "send"
        /\ Done(u) /\ thr[u].op = "transform"
        /\ thr[t].b = thr[u].b
        /\ thr[t].len = thr[u].len /\ ToNat(thr[t].len) >= 2
        /\ thr[t].mix = {"transform"}
        /\ thr[t].pre = thr[u].pre
        /\ LET n == ToNat(thr[t].len)
           IN  /\ thr[t].ret # Int64Of(MixedSum(thr[u].pre, n, {}))
               /\ thr[t].ret # Int64Of(MixedSum(thr[u].pre, n, 1..n))

\* C10: mock_recv and mock_transform load and store only positions in
\* [0, len); a byte at a position >= len holds after the call the value it
\* held before it.
C10_WritesOnlyBelowLen ==
    \A t \in Threads :
        LET c == thr[t]
            n == ToNat(c.len)
        IN  c.op \in {"recv", "transform"} =>
                /\ c.rd \cup c.wr \subseteq 0..(n - 1)
                /\ (Done(t) /\ c.mix = {}) =>
                       \A k \in (n + 1)..Len(c.pre) : c.post[k] = c.pre[k]

C10_Witness ==
    \A op \in {"recv", "transform"} :
        \E t \in Threads :
            /\ Done(t) /\ thr[t].op = op /\ thr[t].mix = {}
            /\ ToNat(thr[t].len) = ConcLen - 1
            /\ thr[t].wr = 0..(ConcLen - 2)
            /\ thr[t].post[1] # thr[t].pre[1]
            /\ thr[t].post[ConcLen] = thr[t].pre[ConcLen]

====
